---- MODULE Spec2Model ----
(***************************************************************************)
(* Model of TradingAgent (src/agent-client.js): the budget gate and the    *)
(* transaction ledger of executePayment, and the workflows built on it     *)
(* (analyzeMarketAndDecide, analyzeBatch, smartAnalysis, researchTopic).   *)
(*                                                                         *)
(* Money is counted in thousandths of a USDC (0.005 USDC = 5), signal      *)
(* strength and confidence in hundredths (0.7 = 70), price change in       *)
(* percent.  Amounts are exact decimals here; the caps and amounts of the  *)
(* model are chosen away from the ties where IEEE doubles round the other  *)
(* way (0.055 - 0.05 >= 0.005 is false in doubles).                        *)
(*                                                                         *)
(* One step of the model is one run of the agent between two suspension    *)
(* points.  A caller's invocation runs up to the first await: through the  *)
(* budget check of executePayment and the call of the x402 client.  When   *)
(* the client's promise fulfils, the agent resumes: bookkeeping, then the  *)
(* workflow up to its next paid call.  When it rejects, executePayment     *)
(* records the failure and rethrows; a rejected executePayment (failure or *)
(* refused budget) reaches the workflow's await in a later step.           *)
(***************************************************************************)
EXTENDS Integers, Sequences, FiniteSets, TLC

\* ---------------------------------------------------------------- bounds
MaxOps == 2          \* top-level operations started on one agent
MaxSymbols == 2      \* length of the list handed to analyzeBatch
MaxAttempts == 6     \* invocations of executePayment on one agent

\* ------------------------------------------------------ program constants
DefaultMaxDailySpend == 10000   \* config.maxDailySpend || 10.0
SignalCost == 5                 \* 0.005
SentimentCost == 20             \* 0.02
PredictionCost == 100           \* 0.10
ResearchCost == 10              \* 0.01
DeepThreshold == 70             \* strength > 0.7
BatchThreshold == 80            \* strength > 0.8
WeakBound == 50                 \* signalStrength < 0.5
MediumBound == 80               \* signalStrength < 0.8
ChangeThreshold == 5            \* priceChange > 5, priceChange < -5
ConfidenceThreshold == 70       \* confidence > 0.7

\* ------------------------------------------------------------ input sets
ConfigMaxDailySpend == {0, 66}     \* 0: config.maxDailySpend absent
Symbols == {"BTC", "ETH"}
Topics == {"yield farming"}
PayEndpoints == {"/api/v1/custom"}
PayAmounts == {-5, 30, 100}
Methods == {"GET", "PUT"}
Strengths == {30, 50, 70, 80, 90}
Trends == {"bullish", "bearish", "neutral"}
Sentiments == {"positive", "negative", "neutral"}
Changes == {-6, -5, 5, 6}
Confidences == {70, 80}
DecisionChanges == -7..7                    \* inputs of makeDecision on its own
DecisionConfidences == {0, 69, 70, 71, 100}
TransportErrors == {"402 payment rejected"}
ReportTimes == {1000, 1001}                 \* Date.now() at a report, in ms

Null == "null"
InsufficientBudget == "Insufficient budget"
TypeError == "TypeError"

Decisions == {"BUY", "SELL", "HOLD", "PASS", "SKIP", "ERROR"}

SymbolLists == UNION {[1..n -> Symbols] : n \in 0..MaxSymbols}

VARIABLES
    maxDailySpend,   \* this.maxDailySpend
    spendingToday,   \* this.spendingToday
    transactions,    \* this.transactions
    calls,           \* the calls received by this.client (get / post), in order
    op,              \* the method of the agent the caller invoked last
    nested,          \* analyzeBatch is inside its call of analyzeMarketAndDecide
    tier,            \* the paid call the workflow is at
    pc,              \* "idle", "await" (client called), "rejected", "done"
    cur,             \* arguments of the executePayment call in progress
    symbol,          \* the symbol being analysed
    symbols,         \* the list given to analyzeBatch
    idx,             \* position of the for-of loop in symbols
    results,         \* results of analyzeBatch
    marketData,      \* marketData.data.signals of the workflow
    sentiment,       \* sentiment.data.sentiment of the workflow
    prediction,      \* the prediction handed to makeDecision
    error,           \* the error a rejected executePayment carries
    result,          \* how the last operation ended: value returned or error thrown
    opsStarted,      \* number of operations started so far
    attempts,        \* number of invocations of executePayment so far
    spentAtStart,    \* spendingToday when the operation started
    callsAtStart,    \* Len(calls) when the operation started
    txAtStart,       \* Len(transactions) when the operation started
    report,          \* what getSpendingReport returned, if it was the last call
    pc2,             \* a second, overlapping executePayment: "idle", "await", "done"
    cur2,            \* its arguments
    result2,         \* how it ended: "none", "return" or the error thrown
    spentAtCheck2    \* spendingToday when its canAfford ran

locals == <<nested, symbol, symbols, idx, results, marketData, sentiment,
            prediction>>
ghost == <<opsStarted, attempts, spentAtStart, callsAtStart, txAtStart>>
vars == <<maxDailySpend, spendingToday, transactions, calls, op, nested, tier,
          pc, cur, symbol, symbols, idx, results, marketData, sentiment,
          prediction, error, result, opsStarted, attempts, spentAtStart, callsAtStart,
          txAtStart, report, pc2, cur2, result2, spentAtCheck2>>
second == <<pc2, cur2, result2, spentAtCheck2>>

\* ---------------------------------------------------------------- values
NoCall == [endpoint |-> "", amount |-> 0, method |-> ""]
NoSignal == [strength |-> 0, trend |-> Null]
NoPrediction == [change |-> 0, confidence |-> 0]
NoResult == [kind |-> "none", decision |-> "", hasTotalSpent |-> FALSE,
             totalSpent |-> 0, error |-> ""]

Returned(decision, hasTotal, total) ==
    [kind |-> "return", decision |-> decision, hasTotalSpent |-> hasTotal,
     totalSpent |-> total, error |-> ""]

Thrown(err) ==
    [kind |-> "throw", decision |-> "", hasTotalSpent |-> FALSE,
     totalSpent |-> 0, error |-> err]

Entry(sym, decision, total, err) ==
    [symbol |-> sym, decision |-> decision, totalSpent |-> total, error |-> err]

MarketEndpoint(sym) == "/api/v1/data/market-intelligence?symbol=" \o sym
SentimentEndpoint == "/api/v1/models/sentiment-analysis"
PredictionEndpoint == "/api/v1/models/price-prediction"

encodeURIComponent(topic) ==
    IF topic = "yield farming" THEN "yield%20farming" ELSE topic

ResearchEndpoint(topic) ==
    "/api/v1/data/research-papers?query=" \o encodeURIComponent(topic) \o "&limit=5"

SignalCall(sym) ==
    [endpoint |-> MarketEndpoint(sym), amount |-> SignalCost, method |-> "GET"]
SentimentCall ==
    [endpoint |-> SentimentEndpoint, amount |-> SentimentCost, method |-> "POST"]
PredictionCall ==
    [endpoint |-> PredictionEndpoint, amount |-> PredictionCost, method |-> "POST"]
ResearchCall(topic) ==
    [endpoint |-> ResearchEndpoint(topic), amount |-> ResearchCost, method |-> "GET"]

\* -------------------------------------------------------- pure functions
\* canAfford with the spending left out of remaining
canAffordIgnoringSpent(spent, amount) ==
    LET remaining == maxDailySpend
    IN  remaining >= amount

\* canAfford(amount), read when this.spendingToday = spent
canAfford(spent, amount) ==
    LET remaining == maxDailySpend - spent
    IN  remaining >= amount

SuccessTx(c) ==
    [endpoint |-> c.endpoint, amount |-> c.amount, status |-> "success", error |-> ""]

FailedTx(c, err) ==
    [endpoint |-> c.endpoint, amount |-> c.amount, status |-> "failed", error |-> err]

\* makeDecision with >= and <= at the price-change thresholds
makeDecisionInclusive(sent, pred) ==
    IF /\ pred.change >= ChangeThreshold
       /\ pred.confidence > ConfidenceThreshold
       /\ sent = Null
    THEN TypeError
    ELSE IF /\ pred.change >= ChangeThreshold
            /\ pred.confidence > ConfidenceThreshold
            /\ sent = "positive"
    THEN "BUY"
    ELSE IF /\ pred.change <= -ChangeThreshold
            /\ pred.confidence > ConfidenceThreshold
    THEN "SELL"
    ELSE "HOLD"

\* makeDecision(marketData, sentiment, prediction): sentiment is the label,
\* or Null when the caller passed null; reading null.data throws TypeError,
\* which && reaches only after its first two operands are true.
makeDecision(sent, pred) ==
    IF /\ pred.change > ChangeThreshold
       /\ pred.confidence > ConfidenceThreshold
       /\ sent = Null
    THEN TypeError
    ELSE IF /\ pred.change > ChangeThreshold
            /\ pred.confidence > ConfidenceThreshold
            /\ sent = "positive"
    THEN "BUY"
    ELSE IF /\ pred.change < -ChangeThreshold
            /\ pred.confidence > ConfidenceThreshold
    THEN "SELL"
    ELSE "HOLD"

\* the bands of smartAnalysis with the boundary values in the lower band
classifySignalExclusive(strength) ==
    IF strength <= WeakBound THEN "weak"
    ELSE IF strength <= MediumBound THEN "medium"
    ELSE "strong"

\* the bands of smartAnalysis: signalStrength < 0.5, then signalStrength < 0.8
classifySignal(strength) ==
    IF strength < WeakBound THEN "weak"
    ELSE IF strength < MediumBound THEN "medium"
    ELSE "strong"

\* ------------------------------------------------------------- reports
RECURSIVE SumAmounts(_)
SumAmounts(txs) ==
    IF Len(txs) = 0 THEN 0 ELSE Head(txs).amount + SumAmounts(Tail(txs))

Successful(txs) == SelectSeq(txs, LAMBDA t : t.status = "success")
Failed(txs) == SelectSeq(txs, LAMBDA t : t.status = "failed")

\* groupByEndpoint() with totalCost = t.amount in place of +=
groupByEndpointAssigning(txs) ==
    LET ok == SelectSeq(txs, LAMBDA t : t.status = "success")
        keys == {ok[i].endpoint : i \in 1..Len(ok)}
        of(e) == SelectSeq(ok, LAMBDA t : t.endpoint = e)
    IN  [e \in keys |-> [count |-> Len(of(e)),
                         totalCost |-> of(e)[Len(of(e))].amount]]

\* groupByEndpoint() without its filter on status
groupByEndpointUnfiltered(txs) ==
    LET keys == {txs[i].endpoint : i \in 1..Len(txs)}
        of(e) == SelectSeq(txs, LAMBDA t : t.endpoint = e)
    IN  [e \in keys |-> [count |-> Len(of(e)), totalCost |-> SumAmounts(of(e))]]

\* groupByEndpoint(): the successful transactions grouped by endpoint
groupByEndpoint(txs) ==
    LET ok == Successful(txs)
        keys == {ok[i].endpoint : i \in 1..Len(ok)}
        of(e) == SelectSeq(ok, LAMBDA t : t.endpoint = e)
    IN  [e \in keys |-> [count |-> Len(of(e)), totalCost |-> SumAmounts(of(e))]]

\* `${((num / den) * 100).toFixed(1)}%`, in tenths of a percent: 0 / 0 is NaN
\* and prints "NaN%"; toFixed rounds to the nearest tenth, halves away from 0
Percent(num, den) ==
    IF den = 0
    THEN [nan |-> TRUE, tenths |-> 0]
    ELSE LET a == IF num < 0 THEN -num ELSE num
             r == (2 * a * 1000 + den) \div (2 * den)
         IN  [nan |-> FALSE, tenths |-> IF num < 0 THEN -r ELSE r]

\* the value of getSpendingReport() at time t (agent, wallet and period are
\* constants of the agent and left out)
buildReport(cap, spent, txs, t) ==
    [taken |-> TRUE,
     max |-> cap,
     spent |-> spent,
     remaining |-> cap - spent,
     utilization |-> Percent(spent, cap),
     total |-> Len(txs),
     successful |-> Len(Successful(txs)),
     failed |-> Len(Failed(txs)),
     successRate |-> Percent(Len(Successful(txs)), Len(txs)),
     endpoints |-> groupByEndpoint(txs),
     timestamp |-> t]

NoReport ==
    [taken |-> FALSE, max |-> 0, spent |-> 0, remaining |-> 0,
     utilization |-> [nan |-> FALSE, tenths |-> 0], total |-> 0,
     successful |-> 0, failed |-> 0,
     successRate |-> [nan |-> FALSE, tenths |-> 0],
     endpoints |-> groupByEndpoint(<<>>), timestamp |-> 0]

\* the budget check that follows a processed symbol in analyzeBatch
NearLimit(spent) == spent * 10 >= maxDailySpend * 9

\* ------------------------------------------------------------ responses
SignalResponses == [strength : Strengths, trend : Trends]
PredictionResponses == [change : Changes, confidence : Confidences]

\* ----------------------------------------------------------------- state
\* the agent right after its constructor, its workflow locals unset
Constructed ==
    /\ spendingToday = 0
    /\ transactions = <<>>
    /\ calls = <<>>
    /\ nested = FALSE
    /\ tier = "none"
    /\ pc = "idle"
    /\ cur = NoCall
    /\ symbol = ""
    /\ symbols = <<>>
    /\ idx = 0
    /\ results = <<>>
    /\ marketData = NoSignal
    /\ error = ""
    /\ result = NoResult
    /\ opsStarted = 0
    /\ attempts = 0
    /\ spentAtStart = 0
    /\ callsAtStart = 0
    /\ txAtStart = 0
    /\ report = NoReport
    /\ pc2 = "idle"
    /\ cur2 = NoCall
    /\ result2 = "none"
    /\ spentAtCheck2 = 0

Init ==
    /\ Constructed
    /\ maxDailySpend \in
         {IF c = 0 THEN DefaultMaxDailySpend ELSE c : c \in ConfigMaxDailySpend}
    /\ op = "none"
    /\ sentiment = Null
    /\ prediction = NoPrediction

\* ------------------------------------------------- executePayment, head
\* executePayment with the budget check inside its try block: the refusal is
\* caught and recorded as a failed transaction
executePaymentHeadRecordingRefusal(t, c, spent, txs) ==
    /\ attempts < MaxAttempts
    /\ attempts' = attempts + 1
    /\ tier' = t
    /\ cur' = c
    /\ result' = NoResult
    /\ spendingToday' = spent
    /\ IF ~canAfford(spent, c.amount)
       THEN /\ pc' = "rejected"
            /\ error' = InsufficientBudget
            /\ calls' = calls
            /\ transactions' = Append(txs, FailedTx(c, InsufficientBudget))
       ELSE IF c.method \in {"GET", "POST"}
       THEN /\ pc' = "await"
            /\ error' = ""
            /\ calls' = Append(calls, c)
            /\ transactions' = txs
       ELSE /\ pc' = "rejected"
            /\ error' = TypeError
            /\ calls' = calls
            /\ transactions' = Append(txs, FailedTx(c, TypeError))

\* The synchronous part of executePayment(c.endpoint, c.amount, c.method),
\* entered for tier t when the ledger holds spent and txs: the budget check,
\* then the call of the client.  A method that is neither GET nor POST calls
\* nothing, response stays undefined, response.headers throws inside the
\* try and the catch block records a failed transaction.
executePaymentHead(t, c, spent, txs) ==
    /\ attempts < MaxAttempts
    /\ attempts' = attempts + 1
    /\ tier' = t
    /\ cur' = c
    /\ result' = NoResult
    /\ spendingToday' = spent
    /\ IF ~canAfford(spent, c.amount)
       THEN /\ pc' = "rejected"
            /\ error' = InsufficientBudget
            /\ calls' = calls
            /\ transactions' = txs
       ELSE IF c.method \in {"GET", "POST"}
       THEN /\ pc' = "await"
            /\ error' = ""
            /\ calls' = Append(calls, c)
            /\ transactions' = txs
       ELSE /\ pc' = "rejected"
            /\ error' = TypeError
            /\ calls' = calls
            /\ transactions' = Append(txs, FailedTx(c, TypeError))

\* the operation settles with r
Finish(r, spent, txs) ==
    /\ attempts' = attempts
    /\ tier' = "none"
    /\ cur' = NoCall
    /\ result' = r
    /\ pc' = "done"
    /\ error' = ""
    /\ calls' = calls
    /\ spendingToday' = spent
    /\ transactions' = txs

\* the locals of a workflow when it starts
FreshLocals ==
    /\ nested' = FALSE
    /\ symbols' = <<>>
    /\ idx' = 0
    /\ results' = <<>>
    /\ marketData' = NoSignal
    /\ sentiment' = Null
    /\ prediction' = NoPrediction

\* a caller invokes a method of the agent
StartOp(name) ==
    /\ pc \in {"idle", "done"}
    /\ opsStarted < MaxOps
    /\ op' = name
    /\ opsStarted' = opsStarted + 1
    /\ spentAtStart' = spendingToday
    /\ callsAtStart' = Len(calls)
    /\ txAtStart' = Len(transactions)
    /\ maxDailySpend' = maxDailySpend
    /\ report' = NoReport
    /\ UNCHANGED second

\* the agent resumes from an await: nothing of the caller's changes
Resumed ==
    /\ UNCHANGED <<maxDailySpend, op, opsStarted, spentAtStart, callsAtStart,
                   txAtStart>>
    /\ report' = NoReport
    /\ UNCHANGED second

\* the bookkeeping of executePayment after the client's promise fulfilled
SpentAfter == spendingToday + cur.amount
TxAfter == Append(transactions, SuccessTx(cur))

\* ------------------------------------------------------- executePayment
StartExecutePayment ==
    \E e \in PayEndpoints, a \in PayAmounts, m \in Methods :
        /\ StartOp("executePayment")
        /\ executePaymentHead("direct", [endpoint |-> e, amount |-> a, method |-> m],
                              spendingToday, transactions)
        /\ symbol' = ""
        /\ FreshLocals

StartResearchTopic ==
    \E topic \in Topics :
        /\ StartOp("researchTopic")
        /\ executePaymentHead("research", ResearchCall(topic),
                              spendingToday, transactions)
        /\ symbol' = ""
        /\ FreshLocals

\* executePayment called by the caller, or by researchTopic, returns its data
PaymentResolves ==
    /\ pc = "await"
    /\ tier \in {"direct", "research"}
    /\ Finish(Returned("", FALSE, 0), SpentAfter, TxAfter)
    /\ UNCHANGED locals
    /\ Resumed

\* the catch block of executePayment charging the failed call
ExecutorFailsCharged ==
    /\ pc = "await"
    /\ \E e \in TransportErrors :
        /\ transactions' = Append(transactions, FailedTx(cur, e))
        /\ error' = e
    /\ pc' = "rejected"
    /\ spendingToday' = spendingToday + cur.amount
    /\ UNCHANGED <<calls, tier, cur, result, attempts>>
    /\ UNCHANGED locals
    /\ Resumed

\* the client's promise rejects: the catch block of executePayment
ExecutorFails ==
    /\ pc = "await"
    /\ \E e \in TransportErrors :
        /\ transactions' = Append(transactions, FailedTx(cur, e))
        /\ error' = e
    /\ pc' = "rejected"
    /\ UNCHANGED <<spendingToday, calls, tier, cur, result, attempts>>
    /\ UNCHANGED locals
    /\ Resumed

\* a rejected executePayment reaches a workflow without a handler of its own
\* (analyzeMarketAndDecide and researchTopic log and rethrow)
Propagate ==
    /\ pc = "rejected"
    /\ op # "analyzeBatch"
    /\ Finish(Thrown(error), spendingToday, transactions)
    /\ UNCHANGED locals
    /\ Resumed

\* --------------------------------------------------------- analyzeBatch
\* analyzeBatch after the entries newResults: leave the loop when stop holds
\* or no symbol is left, otherwise start the next symbol with its signal call
BatchAdvance(newResults, stop, spent, txs) ==
    /\ results' = newResults
    /\ nested' = FALSE
    /\ marketData' = NoSignal
    /\ sentiment' = Null
    /\ prediction' = NoPrediction
    /\ symbols' = symbols
    /\ IF stop \/ idx = Len(symbols)
       THEN /\ Finish(Returned("", FALSE, 0), spent, txs)
            /\ symbol' = symbol
            /\ idx' = idx
       ELSE /\ executePaymentHead("batchSignal", SignalCall(symbols[idx + 1]),
                                  spent, txs)
            /\ symbol' = symbols[idx + 1]
            /\ idx' = idx + 1

StartAnalyzeBatch ==
    \E syms \in SymbolLists :
        /\ StartOp("analyzeBatch")
        /\ symbols' = syms
        /\ results' = <<>>
        /\ nested' = FALSE
        /\ marketData' = NoSignal
        /\ sentiment' = Null
        /\ prediction' = NoPrediction
        /\ IF Len(syms) = 0
           THEN /\ Finish(Returned("", FALSE, 0), spendingToday, transactions)
                /\ symbol' = ""
                /\ idx' = 0
           ELSE /\ executePaymentHead("batchSignal", SignalCall(syms[1]),
                                      spendingToday, transactions)
                /\ symbol' = syms[1]
                /\ idx' = 1

\* the cheap check of a symbol returned: deep analysis or a SKIP entry,
\* then the budget check
BatchSignalResolves ==
    /\ pc = "await"
    /\ tier = "batchSignal"
    /\ \E md \in SignalResponses :
        IF md.strength > BatchThreshold
        THEN /\ executePaymentHead("signal", SignalCall(symbol), SpentAfter, TxAfter)
             /\ nested' = TRUE
             /\ UNCHANGED <<symbol, symbols, idx, results, marketData, sentiment,
                            prediction>>
        ELSE BatchAdvance(Append(results, Entry(symbol, "SKIP", SignalCost, "")),
                          NearLimit(SpentAfter), SpentAfter, TxAfter)
    /\ Resumed

\* the catch block leaving the loop after the ERROR entry
BatchCatchStops ==
    /\ pc = "rejected"
    /\ op = "analyzeBatch"
    /\ BatchAdvance(Append(results, Entry(symbol, "ERROR", 0, error)), TRUE,
                    spendingToday, transactions)
    /\ Resumed

\* the catch block of the loop body: an ERROR entry, and the loop goes on
BatchCatch ==
    /\ pc = "rejected"
    /\ op = "analyzeBatch"
    /\ BatchAdvance(Append(results, Entry(symbol, "ERROR", 0, error)), FALSE,
                    spendingToday, transactions)
    /\ Resumed

\* ----------------------------------------------- analyzeMarketAndDecide
InDeep == op = "analyzeMarketAndDecide" \/ (op = "analyzeBatch" /\ nested)

\* analyzeMarketAndDecide returns r: to its caller, or into the loop of
\* analyzeBatch
DeepReturn(r, spent, txs) ==
    IF nested
    THEN BatchAdvance(Append(results, Entry(symbol, r.decision, r.totalSpent, "")),
                      NearLimit(spent), spent, txs)
    ELSE /\ Finish(r, spent, txs)
         /\ marketData' = NoSignal
         /\ sentiment' = Null
         /\ UNCHANGED <<nested, symbol, symbols, idx, results, prediction>>

StartAnalyzeMarketAndDecide ==
    \E sym \in Symbols :
        /\ StartOp("analyzeMarketAndDecide")
        /\ executePaymentHead("signal", SignalCall(sym), spendingToday, transactions)
        /\ symbol' = sym
        /\ FreshLocals

\* analyzeMarketAndDecide escalating at strength 0.7 too
DeepSignalResolvesInclusive ==
    /\ pc = "await"
    /\ tier = "signal"
    /\ InDeep
    /\ \E md \in SignalResponses :
        IF md.strength >= DeepThreshold
        THEN /\ executePaymentHead("sentiment", SentimentCall, SpentAfter, TxAfter)
             /\ marketData' = md
             /\ UNCHANGED <<nested, symbol, symbols, idx, results, sentiment,
                            prediction>>
        ELSE DeepReturn(Returned("HOLD", TRUE, SignalCost), SpentAfter, TxAfter)
    /\ Resumed

DeepSignalResolves ==
    /\ pc = "await"
    /\ tier = "signal"
    /\ InDeep
    /\ \E md \in SignalResponses :
        IF md.strength > DeepThreshold
        THEN /\ executePaymentHead("sentiment", SentimentCall, SpentAfter, TxAfter)
             /\ marketData' = md
             /\ UNCHANGED <<nested, symbol, symbols, idx, results, sentiment,
                            prediction>>
        ELSE DeepReturn(Returned("HOLD", TRUE, SignalCost), SpentAfter, TxAfter)
    /\ Resumed

DeepSentimentResolves ==
    /\ pc = "await"
    /\ tier = "sentiment"
    /\ InDeep
    /\ \E s \in Sentiments :
        IF s = "positive" /\ marketData.trend = "bullish"
        THEN /\ executePaymentHead("prediction", PredictionCall, SpentAfter, TxAfter)
             /\ sentiment' = s
             /\ UNCHANGED <<nested, symbol, symbols, idx, results, marketData,
                            prediction>>
        ELSE DeepReturn(Returned("HOLD", TRUE, SignalCost), SpentAfter, TxAfter)
    /\ Resumed

DeepPredictionResolves ==
    /\ pc = "await"
    /\ tier = "prediction"
    /\ InDeep
    /\ \E p \in PredictionResponses :
        DeepReturn(Returned(makeDecision(sentiment, p), TRUE,
                            SignalCost + SentimentCost + PredictionCost),
                   SpentAfter, TxAfter)
    /\ Resumed

\* -------------------------------------------------------- smartAnalysis
StartSmartAnalysis ==
    \E sym \in Symbols :
        /\ StartOp("smartAnalysis")
        /\ executePaymentHead("signal", SignalCall(sym), spendingToday, transactions)
        /\ symbol' = sym
        /\ FreshLocals

SmartSignalResolves ==
    /\ pc = "await"
    /\ tier = "signal"
    /\ op = "smartAnalysis"
    /\ \E md \in SignalResponses :
        /\ marketData' = md
        /\ IF classifySignal(md.strength) = "weak"
           THEN Finish(Returned("PASS", FALSE, 0), SpentAfter, TxAfter)
           ELSE IF classifySignal(md.strength) = "medium"
           THEN executePaymentHead("sentiment", SentimentCall, SpentAfter, TxAfter)
           ELSE executePaymentHead("strongPrediction", PredictionCall,
                                   SpentAfter, TxAfter)
    /\ UNCHANGED <<nested, symbol, symbols, idx, results, sentiment, prediction>>
    /\ Resumed

SmartSentimentResolves ==
    /\ pc = "await"
    /\ tier = "sentiment"
    /\ op = "smartAnalysis"
    /\ \E s \in Sentiments :
        /\ sentiment' = s
        /\ IF s = marketData.trend
           THEN executePaymentHead("prediction", PredictionCall, SpentAfter, TxAfter)
           ELSE Finish(Returned("HOLD", TRUE, SignalCost + SentimentCost),
                       SpentAfter, TxAfter)
    /\ UNCHANGED <<nested, symbol, symbols, idx, results, marketData, prediction>>
    /\ Resumed

\* what smartAnalysis settles with once makeDecision gave d (or threw)
SmartOutcome(d, total) ==
    IF d = TypeError THEN Thrown(TypeError) ELSE Returned(d, TRUE, total)

SmartPredictionResolves ==
    /\ pc = "await"
    /\ tier = "prediction"
    /\ op = "smartAnalysis"
    /\ \E p \in PredictionResponses :
        Finish(SmartOutcome(makeDecision(sentiment, p),
                            SignalCost + SentimentCost + PredictionCost),
               SpentAfter, TxAfter)
    /\ UNCHANGED locals
    /\ Resumed

SmartStrongPredictionResolves ==
    /\ pc = "await"
    /\ tier = "strongPrediction"
    /\ \E p \in PredictionResponses :
        Finish(SmartOutcome(makeDecision(Null, p), SignalCost + PredictionCost),
               SpentAfter, TxAfter)
    /\ UNCHANGED locals
    /\ Resumed

\* ------------------------------------------------------------ behaviours
Next ==
    \/ StartExecutePayment
    \/ StartResearchTopic
    \/ StartAnalyzeMarketAndDecide
    \/ StartAnalyzeBatch
    \/ StartSmartAnalysis
    \/ PaymentResolves
    \/ ExecutorFails
    \/ Propagate
    \/ BatchSignalResolves
    \/ BatchCatch
    \/ DeepSignalResolves
    \/ DeepSentimentResolves
    \/ DeepPredictionResolves
    \/ SmartSignalResolves
    \/ SmartSentimentResolves
    \/ SmartPredictionResolves
    \/ SmartStrongPredictionResolves

Spec == Init /\ [][Next]_vars

\* ------------------------------------------- overlapping executePayment
\* The caller starts a second executePayment without awaiting the first one,
\* which is suspended at its await on the client: the second call runs up to
\* its own await (or to its throw) before the first one resumes.  One such
\* call is followed to its end.
firstTask == <<maxDailySpend, op, tier, pc, cur, error, result, opsStarted,
               spentAtStart, callsAtStart, txAtStart>>

SecondPaymentStarts ==
    /\ pc = "await"
    /\ pc2 = "idle"
    /\ attempts < MaxAttempts
    /\ attempts' = attempts + 1
    /\ \E e \in PayEndpoints, a \in PayAmounts, m \in Methods :
        LET c == [endpoint |-> e, amount |-> a, method |-> m]
        IN  /\ cur2' = c
            /\ spentAtCheck2' = spendingToday
            /\ IF ~canAfford(spendingToday, a)
               THEN /\ pc2' = "done"
                    /\ result2' = InsufficientBudget
                    /\ UNCHANGED <<calls, transactions>>
               ELSE IF m \in {"GET", "POST"}
               THEN /\ pc2' = "await"
                    /\ result2' = "none"
                    /\ calls' = Append(calls, c)
                    /\ UNCHANGED transactions
               ELSE /\ pc2' = "done"
                    /\ result2' = TypeError
                    /\ transactions' = Append(transactions, FailedTx(c, TypeError))
                    /\ UNCHANGED calls
    /\ UNCHANGED <<spendingToday, report>>
    /\ UNCHANGED firstTask
    /\ UNCHANGED locals

\* the second call resumes with a response and checks the budget again
SecondPaymentResolvesRechecking ==
    /\ pc2 = "await"
    /\ pc2' = "done"
    /\ IF canAfford(spendingToday, cur2.amount)
       THEN /\ result2' = "return"
            /\ spendingToday' = spendingToday + cur2.amount
            /\ transactions' = Append(transactions, SuccessTx(cur2))
       ELSE /\ result2' = InsufficientBudget
            /\ UNCHANGED <<spendingToday, transactions>>
    /\ UNCHANGED <<calls, attempts, cur2, spentAtCheck2, report>>
    /\ UNCHANGED firstTask
    /\ UNCHANGED locals

\* the second call resumes with a response: debit and success record
SecondPaymentResolves ==
    /\ pc2 = "await"
    /\ pc2' = "done"
    /\ result2' = "return"
    /\ spendingToday' = spendingToday + cur2.amount
    /\ transactions' = Append(transactions, SuccessTx(cur2))
    /\ UNCHANGED <<calls, attempts, cur2, spentAtCheck2, report>>
    /\ UNCHANGED firstTask
    /\ UNCHANGED locals

\* the client rejects the second call: failed record, no debit, rethrow
SecondExecutorFails ==
    /\ pc2 = "await"
    /\ pc2' = "done"
    /\ \E e \in TransportErrors :
        /\ result2' = e
        /\ transactions' = Append(transactions, FailedTx(cur2, e))
    /\ UNCHANGED <<spendingToday, calls, attempts, cur2, spentAtCheck2, report>>
    /\ UNCHANGED firstTask
    /\ UNCHANGED locals

NextConcurrent ==
    \/ StartExecutePayment
    \/ StartResearchTopic
    \/ PaymentResolves
    \/ ExecutorFails
    \/ Propagate
    \/ SecondPaymentStarts
    \/ SecondPaymentResolves
    \/ SecondExecutorFails

SpecConcurrent == Init /\ [][NextConcurrent]_vars

\* ---------------------------------------------------- getSpendingReport
\* getSpendingReport() runs whenever the agent is not running: before, after
\* or between the paid calls of a workflow.  The clock does not go back.
GetSpendingReportResetting ==
    /\ pc \in {"idle", "await", "done"}
    /\ \E t \in ReportTimes :
        /\ report.taken => t >= report.timestamp
        /\ report' = buildReport(maxDailySpend, spendingToday, transactions, t)
    /\ spendingToday' = 0
    /\ UNCHANGED <<maxDailySpend, transactions, calls, op, tier, pc, cur, error,
                   result>>
    /\ UNCHANGED locals
    /\ UNCHANGED ghost
    /\ UNCHANGED second

GetSpendingReport ==
    /\ pc \in {"idle", "await", "done"}
    /\ \E t \in ReportTimes :
        /\ report.taken => t >= report.timestamp
        /\ report' = buildReport(maxDailySpend, spendingToday, transactions, t)
    /\ UNCHANGED <<maxDailySpend, spendingToday, transactions, calls, op, tier,
                   pc, cur, error, result>>
    /\ UNCHANGED locals
    /\ UNCHANGED ghost
    /\ UNCHANGED second

NextReport == Next \/ GetSpendingReport

SpecReport == Init /\ [][NextReport]_vars

\* ---------------------------------------------- makeDecision on its own
InitDecision ==
    /\ Constructed
    /\ maxDailySpend = DefaultMaxDailySpend
    /\ op = "makeDecision"
    /\ sentiment \in Sentiments \cup {Null}
    /\ prediction \in [change : DecisionChanges, confidence : DecisionConfidences]

Decide ==
    /\ op = "makeDecision"
    /\ pc = "idle"
    /\ pc' = "done"
    /\ result' = SmartOutcome(makeDecision(sentiment, prediction), 0)
    /\ UNCHANGED <<maxDailySpend, spendingToday, transactions, calls, op, tier,
                   cur, error>>
    /\ UNCHANGED locals
    /\ UNCHANGED ghost
    /\ UNCHANGED report
    /\ UNCHANGED second

SpecDecision == InitDecision /\ [][Decide]_vars

\* ================================================================ claims
Refusals == {InsufficientBudget} \cup TransportErrors
Workflows == {"analyzeMarketAndDecide", "analyzeBatch", "smartAnalysis"}
LastTx == transactions[Len(transactions)]

\* C1 - Budget invariant: spendingToday never exceeds maxDailySpend, and
\* while a call of the client is in flight its amount is at most what was
\* left of the budget when it was made.
BudgetInvariant ==
    /\ spendingToday <= maxDailySpend
    /\ pc = "await" => cur.amount <= maxDailySpend - spendingToday

\* a paid call in flight that uses up the budget to less than a sentiment call
BudgetInvariantWitness ==
    /\ pc = "await"
    /\ spendingToday > 0
    /\ cur.amount > 0
    /\ maxDailySpend - spendingToday - cur.amount < SentimentCost

\* C2 - Ledger completeness: the transactions are exactly the client calls
\* that have settled, one record per call, in order; nothing is recorded for
\* an attempt that made no client call.
LedgerCompleteness ==
    /\ Len(transactions) = Len(calls) - (IF pc = "await" THEN 1 ELSE 0)
    /\ \A i \in 1..Len(transactions) :
         i <= Len(calls) =>
            /\ transactions[i].endpoint = calls[i].endpoint
            /\ transactions[i].amount = calls[i].amount

\* C3 - Budget exhaustion: an executePayment whose amount exceeds what is
\* left when it is called is rejected with the insufficient-budget error,
\* calls no client, and changes neither spendingToday nor transactions (in a
\* step that resumes from a payment, beyond that payment's bookkeeping).
BudgetExhaustion ==
    [][ LET spentAtCall == IF pc = "await" THEN spendingToday + cur.amount
                           ELSE spendingToday
            txAtCall == IF pc = "await"
                        THEN Append(transactions,
                                    [endpoint |-> cur.endpoint, amount |-> cur.amount,
                                     status |-> "success", error |-> ""])
                        ELSE transactions
        IN  (attempts' = attempts + 1 /\ cur'.amount > maxDailySpend - spentAtCall)
               => /\ pc' = "rejected"
                  /\ error' = InsufficientBudget
                  /\ calls' = calls
                  /\ spendingToday' = spentAtCall
                  /\ transactions' = txAtCall ]_vars

\* a workflow refused in its prediction tier after two payments
BudgetExhaustionWitness ==
    /\ pc = "rejected"
    /\ error = InsufficientBudget
    /\ tier = "prediction"
    /\ cur.amount > maxDailySpend - spendingToday
    /\ spendingToday = spentAtStart + SignalCost + SentimentCost
    /\ Len(transactions) = txAtStart + 2

\* C4 - Failed calls are not charged: when the client call fails, one failed
\* transaction with the call's endpoint, amount and the error is appended,
\* spendingToday is unchanged, and that error is the one the workflow gets
\* and (outside analyzeBatch) the one its caller gets.
FailedCallsNotCharged ==
    [][ /\ (pc = "await" /\ pc' = "rejected" /\ error' \in TransportErrors)
            => /\ transactions' =
                    Append(transactions,
                           [endpoint |-> cur.endpoint, amount |-> cur.amount,
                            status |-> "failed", error |-> error'])
               /\ spendingToday' = spendingToday
        /\ (pc = "rejected" /\ error \in TransportErrors /\ op # "analyzeBatch")
            => /\ result'.kind = "throw"
               /\ result'.error = error
               /\ LastTx.status = "failed"
               /\ LastTx.error = error ]_vars

\* a workflow that ended with the client's error after a failed first call
FailedCallsNotChargedWitness ==
    /\ pc = "done"
    /\ result.kind = "throw"
    /\ result.error \in TransportErrors
    /\ Len(transactions) = txAtStart + 1
    /\ LastTx.status = "failed"
    /\ LastTx.amount > 0
    /\ spendingToday = spentAtStart

\* C5 - Every workflow path ends in a Decision: a workflow that met neither
\* a refused budget nor a failed client call returns, and what it returns
\* carries a decision among BUY, SELL, HOLD, PASS, SKIP, ERROR.
EveryPathEndsInDecision ==
    (pc = "done" /\ op \in Workflows /\ result.error \notin Refusals)
        => /\ result.kind = "return"
           /\ op # "analyzeBatch" => result.decision \in Decisions
           /\ op = "analyzeBatch" =>
                \A i \in 1..Len(results) : results[i].decision \in Decisions

\* C6 - Deep analysis reports what it spent: the totalSpent returned by
\* analyzeMarketAndDecide is the increase of spendingToday it caused.
DeepReportsSpend ==
    (pc = "done" /\ op = "analyzeMarketAndDecide" /\ result.kind = "return")
        => /\ result.hasTotalSpent
           /\ result.totalSpent = spendingToday - spentAtStart

\* C7 - Batch early termination: analyzeBatch makes no client call for a
\* further symbol once a symbol has been processed with spendingToday at or
\* above 0.9 * maxDailySpend.
BatchEarlyTermination ==
    (op = "analyzeBatch" /\ pc = "await" /\ tier = "batchSignal" /\ idx > 1)
        => ~(spendingToday * 10 >= maxDailySpend * 9)

\* C8 - Batch error isolation: analyzeBatch never ends with an error; a
\* rejected payment adds exactly one entry ERROR with totalSpent 0 for the
\* symbol and the next symbol is attempted; the entries are one per symbol
\* processed, in input order.
BatchErrorIsolation ==
    [][ /\ (op' = "analyzeBatch" /\ pc' = "done") => result'.kind = "return"
        /\ (op = "analyzeBatch" /\ pc = "rejected")
            => /\ results' = Append(results,
                                    [symbol |-> symbols[idx], decision |-> "ERROR",
                                     totalSpent |-> 0, error |-> error])
               /\ IF idx < Len(symbols)
                  THEN idx' = idx + 1 /\ attempts' = attempts + 1
                  ELSE pc' = "done"
        /\ op' = "analyzeBatch"
            => /\ Len(results') = (IF pc' = "done" THEN idx' ELSE idx' - 1)
               /\ \A i \in 1..Len(results') : results'[i].symbol = symbols'[i] ]_vars

\* a batch that went on to a second, different symbol after an ERROR entry
BatchErrorIsolationWitness ==
    /\ op = "analyzeBatch"
    /\ pc = "done"
    /\ Len(results) = 2
    /\ results[1].decision = "ERROR"
    /\ results[2].decision = "SKIP"
    /\ results[1].symbol # results[2].symbol

\* C9 - Adaptive tiering: a smartAnalysis that met neither a refused budget
\* nor a failed client call has made the client calls of its band:
\* strength < 0.5 signal only (PASS, one transaction); 0.5 <= strength < 0.8
\* signal, sentiment, and prediction exactly when the sentiment label equals
\* the trend label, else HOLD; strength >= 0.8 signal and prediction (two
\* transactions).
AdaptiveTiering ==
    (op = "smartAnalysis" /\ pc = "done" /\ result.error \notin Refusals)
        => LET s == marketData.strength
               made == SubSeq(calls, callsAtStart + 1, Len(calls))
               eps == [i \in 1..Len(made) |-> made[i].endpoint]
               ntx == Len(transactions) - txAtStart
               M == "/api/v1/data/market-intelligence?symbol=" \o symbol
               S == "/api/v1/models/sentiment-analysis"
               P == "/api/v1/models/price-prediction"
           IN  /\ s < 50 => eps = <<M>> /\ result.decision = "PASS" /\ ntx = 1
               /\ (s >= 50 /\ s < 80) =>
                     IF sentiment = marketData.trend
                     THEN eps = <<M, S, P>>
                     ELSE eps = <<M, S>> /\ result.decision = "HOLD"
               /\ s >= 80 => eps = <<M, P>> /\ ntx = 2

\* smartAnalysis done on a signal of strength exactly 0.8
AdaptiveTieringWitness ==
    /\ op = "smartAnalysis"
    /\ pc = "done"
    /\ marketData.strength = 80
    /\ Len(calls) = callsAtStart + 2
    /\ result.kind = "return"

\* C10 - finalDecision thresholds: for a sentiment label, makeDecision gives
\* BUY exactly when change > 5, confidence > 0.7 and the label is positive,
\* SELL exactly when change < -5 and confidence > 0.7, HOLD otherwise.
DecisionThresholds ==
    (op = "makeDecision" /\ pc = "done" /\ sentiment \in Sentiments)
        => LET buy == /\ prediction.change > 5
                      /\ prediction.confidence > 70
                      /\ sentiment = "positive"
               sell == prediction.change < -5 /\ prediction.confidence > 70
           IN  /\ result.kind = "return"
               /\ result.decision = "BUY" <=> buy
               /\ result.decision = "SELL" <=> sell
               /\ result.decision = "HOLD" <=> (~buy /\ ~sell)

\* makeDecision at the tie change = 5 with a positive label
DecisionThresholdsWitness ==
    /\ op = "makeDecision"
    /\ pc = "done"
    /\ sentiment = "positive"
    /\ prediction.change = 5
    /\ prediction.confidence = 100
    /\ result.decision = "HOLD"

\* C11 - Report on an empty ledger: the success rate of a report is 0 when
\* there is no transaction, and successful / total (as a percentage with one
\* decimal) otherwise; it is never not-a-number.
ReportSuccessRate ==
    report.taken =>
        /\ ~report.successRate.nan
        /\ report.successRate.tenths =
              (IF report.total = 0 THEN 0
               ELSE (2000 * report.successful + report.total)
                       \div (2 * report.total))

CheckThenDebitRace ==
    [][/\ (pc = "await" /\ pc2 # "await" /\ pc2' = "await") =>
              /\ canAfford(spendingToday, cur2'.amount)
              /\ spentAtCheck2' = spendingToday
              /\ UNCHANGED <<spendingToday, transactions>>
       /\ (pc2 = "await" /\ pc2' = "done") =>
              \/ /\ result2' = "return"
                 /\ spendingToday' = spendingToday + cur2.amount
                 /\ transactions' = Append(transactions, SuccessTx(cur2))
              \/ /\ result2' \in TransportErrors
                 /\ spendingToday' = spendingToday
                 /\ transactions' = Append(transactions, FailedTx(cur2, result2'))
       /\ (op = "executePayment" /\ pc = "await" /\ pc' = "done") =>
              /\ spendingToday' = spendingToday + cur.amount
              /\ transactions' = Append(transactions, SuccessTx(cur))]_vars

\* two overlapping calls passed the check against the same spendingToday,
\* both succeeded, and the spend is above the cap
CheckThenDebitRaceWitness ==
    /\ op = "executePayment"
    /\ pc = "done"
    /\ result.kind = "return"
    /\ pc2 = "done"
    /\ result2 = "return"
    /\ spentAtCheck2 = spentAtStart
    /\ spendingToday = spentAtStart + LastTx.amount
                          + transactions[Len(transactions) - 1].amount
    /\ spendingToday > maxDailySpend

\* C14 - Deep-analysis escalation order: analyzeMarketAndDecide issues the
\* sentiment call only in the step that records a successful signal call whose
\* strength is > 0.7 (not at 0.7), and the prediction call only in the step
\* that records a successful sentiment call whose label is positive while the
\* trend of the signal is bullish; so the prediction endpoint is never invoked
\* before or without the sentiment call.
DeepEscalationOrder ==
    [][(InDeep' /\ Len(calls') > Len(calls)) =>
          LET c == calls'[Len(calls')]
              done == transactions'[Len(transactions')]
          IN  /\ Len(calls') = Len(calls) + 1
              /\ c.endpoint = SentimentEndpoint =>
                    /\ Len(transactions') = Len(transactions) + 1
                    /\ done = SuccessTx(SignalCall(symbol))
                    /\ calls[Len(calls)] = SignalCall(symbol)
                    /\ marketData'.strength > DeepThreshold
              /\ c.endpoint = PredictionEndpoint =>
                    /\ Len(transactions') = Len(transactions) + 1
                    /\ done = SuccessTx(SentimentCall)
                    /\ calls[Len(calls)] = SentimentCall
                    /\ sentiment' = "positive"
                    /\ marketData'.trend = "bullish"
                    /\ marketData'.strength > DeepThreshold]_vars

\* the deep analysis has reached its prediction call
DeepEscalationOrderWitness ==
    /\ op = "analyzeMarketAndDecide"
    /\ pc = "await"
    /\ tier = "prediction"
    /\ calls[Len(calls)] = PredictionCall
    /\ Len(calls) = callsAtStart + 3

\* C15 - Batch gating: a symbol of analyzeBatch whose cheap signal is <= 0.8
\* yields a SKIP entry after exactly one call of the client and a spend of C1;
\* a symbol that went through the deep analysis cost C1, C1 + C2 or
\* C1 + C2 + C3, the signal tier being charged once.  Stated for batches of
\* one symbol, when the batch has returned.
BatchGating ==
    (/\ op = "analyzeBatch"
     /\ pc = "done"
     /\ Len(symbols) = 1
     /\ results[1].decision # "ERROR") =>
        LET spend == spendingToday - spentAtStart
            made == Len(calls) - callsAtStart
            signals == {i \in callsAtStart + 1 .. Len(calls) :
                           calls[i] = SignalCall(symbols[1])}
        IN  IF results[1].decision = "SKIP"
            THEN made = 1 /\ spend = SignalCost
            ELSE /\ Cardinality(signals) = 1
                 /\ spend \in {SignalCost, SignalCost + SentimentCost,
                               SignalCost + SentimentCost + PredictionCost}

\* C16 - Smart analysis reports what it spent: every decision smartAnalysis
\* returns (PASS, HOLD, BUY, SELL) carries a totalSpent, equal to the cost of
\* the tiers executed in that invocation.
SmartReportsSpend ==
    (op = "smartAnalysis" /\ pc = "done" /\ result.kind = "return") =>
        /\ result.decision \in {"PASS", "HOLD", "BUY", "SELL"}
        /\ result.hasTotalSpent
        /\ result.totalSpent = spendingToday - spentAtStart

\* the positions of the ledger that hold a transaction of endpoint e
TxOf(e) == {i \in 1..Len(transactions) : transactions[i].endpoint = e}
SuccessOf(e) == {i \in TxOf(e) : transactions[i].status = "success"}
LedgerEndpoints == {transactions[i].endpoint : i \in 1..Len(transactions)}

RECURSIVE CostOf(_)
CostOf(S) ==
    IF S = {} THEN 0
    ELSE LET i == CHOOSE x \in S : TRUE
         IN  transactions[i].amount + CostOf(S \ {i})

\* C17 - Per-endpoint aggregation, as stated: the endpoints of a report hold
\* one entry for every endpoint that appears in the transactions, with the
\* number of that endpoint's transactions and the sum of their amounts.
EndpointAggregation ==
    report.taken =>
        /\ DOMAIN report.endpoints = LedgerEndpoints
        /\ \A e \in LedgerEndpoints :
              /\ report.endpoints[e].count = Cardinality(TxOf(e))
              /\ report.endpoints[e].totalCost = CostOf(TxOf(e))

\* C17, amended - the endpoints of a report hold one entry for every endpoint
\* with at least one successful transaction, with the number of that
\* endpoint's successful transactions and the sum of their amounts; failed
\* transactions are not counted.
EndpointAggregationOfSuccesses ==
    report.taken =>
        /\ DOMAIN report.endpoints = {e \in LedgerEndpoints : SuccessOf(e) # {}}
        /\ \A e \in DOMAIN report.endpoints :
              /\ report.endpoints[e].count = Cardinality(SuccessOf(e))
              /\ report.endpoints[e].totalCost = CostOf(SuccessOf(e))

\* a report over an endpoint with two successes and a failure, and an
\* endpoint that only failed
EndpointAggregationWitness ==
    /\ report.taken
    /\ \E e \in DOMAIN report.endpoints :
          /\ report.endpoints[e].count = 2
          /\ SuccessOf(e) # TxOf(e)
    /\ \E e \in LedgerEndpoints : e \notin DOMAIN report.endpoints

\* C18 - Append-only ledger and monotone spend: in every step of every
\* operation (executePayment with any arguments, the workflows,
\* getSpendingReport) the transactions before the step are a prefix of the
\* transactions after it, and spendingToday does not decrease.
AppendOnlyMonotoneSpend ==
    [][/\ Len(transactions') >= Len(transactions)
       /\ SubSeq(transactions', 1, Len(transactions)) = transactions
       /\ spendingToday' >= spendingToday]_vars

RECURSIVE TotalCostOver(_, _)
TotalCostOver(g, S) ==
    IF S = {} THEN 0
    ELSE LET e == CHOOSE x \in S : TRUE
         IN  g[e].totalCost + TotalCostOver(g, S \ {e})

RECURSIVE CountOver(_, _)
CountOver(g, S) ==
    IF S = {} THEN 0
    ELSE LET e == CHOOSE x \in S : TRUE
         IN  g[e].count + CountOver(g, S \ {e})

Successes == {i \in 1..Len(transactions) : transactions[i].status = "success"}

RECURSIVE SumTotalSpent(_)
SumTotalSpent(entries) ==
    IF Len(entries) = 0 THEN 0
    ELSE Head(entries).totalSpent + SumTotalSpent(Tail(entries))

\* C20 - Batch accounting: when analyzeBatch has returned, the totalSpent of
\* its entries add up to the increase of spendingToday during the call,
\* whatever the symbols, the responses and the failures.
BatchAccounting ==
    (op = "analyzeBatch" /\ pc = "done") =>
        SumTotalSpent(results) = spendingToday - spentAtStart

====
